---- MODULE Spec2Model ----
(***************************************************************************)
(* Event Reminder Tool (src/app.js): the event store with its LocalStorage *)
(* mirror, the form handlers that drive it, the date classifier, the       *)
(* countdown interval with the cards it redraws, backups, and the e-mail   *)
(* sent for a new event.                                                   *)
(*                                                                         *)
(* Time.  An instant is a whole number of seconds since                    *)
(* 2026-01-01T00:00:00Z (the code's millisecond values divided by 1000;    *)
(* TLC's integers are 32 bits wide).  `now` is what new Date() / Date.now()*)
(* reads; two reads in one state see the same value.  `tz` is the local    *)
(* time zone, fixed for a run: its UTC offsets and when its clocks change. *)
(*                                                                         *)
(* Strings.  A title or description is a sequence of one-character         *)
(* strings.  A date string 'YYYY-MM-DD' is the triple <<y, m, d>>; the     *)
(* empty string is <<>>; NotADate is a string no Date constructor parses.  *)
(* A generated id `event_${Date.now()}_${random}` is the pair              *)
(* <<clock reading, random suffix>>.  A created-at ISO string is           *)
(* <<"t", clock reading>>.                                                 *)
(*                                                                         *)
(* Objects.  A JSON array element is a record with a field k: "obj" (an    *)
(* object, carrying the properties it has), "prim" (a number, string or    *)
(* boolean: every property read gives undefined) or "null" (every property *)
(* read throws).  A property whose value is undefined is either absent or  *)
(* holds Undefined; JSON.stringify drops the latter.                       *)
(***************************************************************************)
EXTENDS Integers, Sequences, FiniteSets, TLC

VARIABLES
    events,          \* StateManager.events
    storage,         \* localStorage['eventReminder_events']
    editMode,        \* UIRenderer.editMode
    editingEventId,  \* UIRenderer.editingEventId
    now,             \* the clock
    tz,              \* local time zone
    pc,              \* "boot" before initApp has run, "running" after it, "failed"
                     \* when it raised
    last,            \* what the last handler did (id: of the record it added or
                     \* removed)
    view,            \* the last card computed by createEventCard: the date,
                     \* its status class, and the clock reading it was made at
    backup,          \* the last file written by exportData
    cards,           \* the event list as last drawn: eventsList.innerHTML
    hidden,          \* document.hidden
    intervalId,      \* CountdownManager.intervalId
    intervals,       \* the countdown intervals the browser is running
    lastCheckedDate, \* CountdownManager.lastCheckedDate
    emailjs,         \* whether the EmailJS library was loaded with the page
    pending,         \* the emailjs.send calls that have not settled yet: the id
                     \* of the event each is about
    server,          \* the static server (server.js): the directory it was
                     \* started in, and the last request with its response
    reminded,        \* the reminder_sent_ keys in localStorage: event id and day
    sent,            \* the reminder e-mails handed to emailjs.send so far: event
                     \* id and the local day of the check
    categories,      \* CategoryManager.categories: the ids of the categories
    categoriesStored \* localStorage['eventReminder_categories']

vars ==
    <<events, storage, editMode, editingEventId, now, tz, pc, last, view, backup,
      cards, hidden, intervalId, intervals, lastCheckedDate, emailjs, pending,
      server, reminded, sent, categories, categoriesStored>>

\* what the countdown manager keeps
timers == <<hidden, intervalId, intervals, lastCheckedDate>>

\* what the form handlers and the clock never touch
others ==
    <<backup, timers, emailjs, pending, server, reminded, sent, categories,
      categoriesStored>>

-----------------------------------------------------------------------------
(* Values *)

Undefined == <<"undefined">>

Null == <<"null">>

NotADate == <<0, 0, 0>>

EmptyString == <<>>

\* JS truthiness of a string-or-undefined value
Truthy(v) == v # Undefined /\ v # Null /\ v # EmptyString

\* obj.key
Get(e, key) ==
    IF e.k = "obj" /\ key \in DOMAIN e THEN e[key] ELSE Undefined

-----------------------------------------------------------------------------
(* Calendar *)

SecondsPerDay == 60 * 60 * 24

DaysInMonth(m) ==
    CASE m \in {1, 3, 5, 7, 8, 10, 12} -> 31
      [] m \in {4, 6, 9, 11} -> 30
      [] OTHER -> 28

RECURSIVE DaysBeforeMonth(_)
DaysBeforeMonth(m) ==
    IF m <= 1 THEN 0 ELSE DaysBeforeMonth(m - 1) + DaysInMonth(m - 1)

\* days from 2026-01-01 to y-m-d; d may overflow the month, as in setDate()
DayNumber(y, m, d) == (y - 2026) * 365 + DaysBeforeMonth(m) + d - 1

IsDateString(s) ==
    /\ Len(s) = 3
    /\ s[1] \in 2025..2027
    /\ s[2] \in 1..12
    /\ s[3] \in 1..DaysInMonth(s[2])

\* the month of day-of-year n (0-based), and the calendar date of a day number
RECURSIVE MonthOfYearDay(_, _)
MonthOfYearDay(n, m) ==
    IF n < DaysBeforeMonth(m + 1) THEN m ELSE MonthOfYearDay(n, m + 1)

DateOfDayNumber(n) ==
    LET y == 2026 + (n \div 365)
        r == n % 365
        m == MonthOfYearDay(r, 1)
    IN  <<y, m, r - DaysBeforeMonth(m) + 1>>

\* an Invalid Date's time value
NaN == 0 - 2^30

\* new Date('YYYY-MM-DD'): a date-only ISO string is read as UTC midnight
NewDate(s) ==
    IF IsDateString(s) THEN DayNumber(s[1], s[2], s[3]) * SecondsPerDay ELSE NaN

\* A time zone: its UTC offset in seconds east of Greenwich, `dst` from the
\* instant `from` up to the instant `until` and `std` otherwise
FixedZone(offset) == [std |-> offset, dst |-> offset, from |-> 0, until |-> 0]

UTC == FixedZone(0)

OffsetAt(zone, t) ==
    IF t >= zone.from /\ t < zone.until THEN zone.dst ELSE zone.std

\* the local calendar day (as a day number) an instant falls on
LocalDay(t, zone) == (t + OffsetAt(zone, t)) \div SecondsPerDay

\* the instant at which a local calendar day begins (the zones' clocks change
\* at 2 in the morning, so midnight exists once)
LocalMidnight(day, zone) ==
    IF OffsetAt(zone, day * SecondsPerDay - zone.dst) = zone.dst
    THEN day * SecondsPerDay - zone.dst
    ELSE day * SecondsPerDay - zone.std

\* date.setHours(0, 0, 0, 0): local midnight of the instant's local day
setHoursZero(t, zone) ==
    IF t = NaN THEN NaN ELSE LocalMidnight(LocalDay(t, zone), zone)

\* date.setDate(date.getDate() + n), for a date at local midnight
setDatePlus(t, n, zone) ==
    LET c == DateOfDayNumber(LocalDay(t, zone))
    IN  LocalMidnight(DayNumber(c[1], c[2], c[3] + n), zone)

-----------------------------------------------------------------------------
(* DateUtils *)

UpcomingWindowDays == 7

getToday(clock, zone) == setHoursZero(clock, zone)

\* new Date(dateString + 'T00:00:00'): a date-time without offset is local
parseDate(s, zone) ==
    IF IsDateString(s) THEN LocalMidnight(DayNumber(s[1], s[2], s[3]), zone)
    ELSE NaN

isToday(date, clock, zone) ==
    LET today == getToday(clock, zone)
        compareDate == setHoursZero(NewDate(date), zone)
    IN  compareDate # NaN /\ compareDate = today

isPast(date, clock, zone) ==
    LET today == getToday(clock, zone)
        compareDate == setHoursZero(NewDate(date), zone)
    IN  compareDate # NaN /\ compareDate < today

isUpcoming(date, clock, zone) ==
    LET today == getToday(clock, zone)
        compareDate == setHoursZero(NewDate(date), zone)
        sevenDaysLater == setDatePlus(today, UpcomingWindowDays, zone)
    IN  compareDate # NaN /\ compareDate > today /\ compareDate <= sevenDaysLater

getEventStatus(date, clock, zone) ==
    IF isToday(date, clock, zone) THEN "today"
    ELSE IF isPast(date, clock, zone) THEN "past"
    ELSE IF isUpcoming(date, clock, zone) THEN "upcoming"
    ELSE "future"

\* Math.ceil(a / b) for b > 0; the result -0 equals 0
ceilDiv(a, b) == 0 - ((0 - a) \div b)

\* formatDateLong: the local calendar date of the parsed date, written out
formatDateLong(dateString, zone) ==
    IF parseDate(dateString, zone) = NaN THEN <<"Invalid Date">>
    ELSE <<"long">> \o DateOfDayNumber(LocalDay(parseDate(dateString, zone), zone))

\* formatDateRelative.  A label is the sequence of its words and numbers.
formatDateRelative(dateString, clock, zone) ==
    LET date == parseDate(dateString, zone)
        today == getToday(clock, zone)
        diffDays == IF date = NaN THEN NaN ELSE ceilDiv(date - today, SecondsPerDay)
    IN  IF diffDays = NaN THEN formatDateLong(dateString, zone)
        ELSE IF diffDays = 0 THEN <<"Today">>
        ELSE IF diffDays = 1 THEN <<"Tomorrow">>
        ELSE IF diffDays = 0 - 1 THEN <<"Yesterday">>
        ELSE IF diffDays < 0 - 1 THEN <<0 - diffDays, "days ago">>
        ELSE <<"In", diffDays, "days">>

\* The clock of the countdown resolves half seconds: an instant there is a
\* number of ticks, where the code has 1000 milliseconds to the second
TicksPerSecond == 2

\* a countdown whose hours are those of the whole difference
getCountdownTotalHours(dateString, clock, frac, zone) ==
    LET eventDate == parseDate(dateString, zone)
        diff == (eventDate - clock) * TicksPerSecond - frac
    IN  IF diff <= 0
        THEN [days |-> 0, hours |-> 0, minutes |-> 0, seconds |-> 0, isPast |-> TRUE]
        ELSE [days |-> diff \div (TicksPerSecond * 60 * 60 * 24),
              hours |-> diff \div (TicksPerSecond * 60 * 60),
              minutes |-> (diff % (TicksPerSecond * 60 * 60))
                              \div (TicksPerSecond * 60),
              seconds |-> (diff % (TicksPerSecond * 60)) \div TicksPerSecond,
              isPast |-> FALSE]

\* getCountdown at the clock reading `clock` seconds and `frac` ticks
getCountdown(dateString, clock, frac, zone) ==
    LET eventDate == parseDate(dateString, zone)
        diff == (eventDate - clock) * TicksPerSecond - frac
    IN  IF eventDate = NaN
        THEN [days |-> NaN, hours |-> NaN, minutes |-> NaN, seconds |-> NaN,
              isPast |-> FALSE]
        ELSE IF diff <= 0
        THEN [days |-> 0, hours |-> 0, minutes |-> 0, seconds |-> 0, isPast |-> TRUE]
        ELSE [days |-> diff \div (TicksPerSecond * 60 * 60 * 24),
              hours |-> (diff % (TicksPerSecond * 60 * 60 * 24))
                            \div (TicksPerSecond * 60 * 60),
              minutes |-> (diff % (TicksPerSecond * 60 * 60))
                              \div (TicksPerSecond * 60),
              seconds |-> (diff % (TicksPerSecond * 60)) \div TicksPerSecond,
              isPast |-> FALSE]

\* The text of a countdown is the sequence of its parts, `${n}d` being
\* <<n, "d">>; the parts are joined by spaces
PassedText == <<<<0, "Event has passed">>>>

\* a formatCountdown that shows the hours only when they are not 0
formatCountdownBare(countdown) ==
    IF countdown.isPast THEN PassedText
    ELSE (IF countdown.days > 0 THEN <<<<countdown.days, "d">>>> ELSE <<>>)
         \o (IF countdown.hours > 0 THEN <<<<countdown.hours, "h">>>> ELSE <<>>)
         \o (IF countdown.minutes > 0 \/ countdown.hours > 0 \/ countdown.days > 0
             THEN <<<<countdown.minutes, "m">>>> ELSE <<>>)
         \o <<<<countdown.seconds, "s">>>>

formatCountdown(countdown) ==
    IF countdown.isPast THEN PassedText
    ELSE (IF countdown.days > 0 THEN <<<<countdown.days, "d">>>> ELSE <<>>)
         \o (IF countdown.hours > 0 \/ countdown.days > 0
             THEN <<<<countdown.hours, "h">>>> ELSE <<>>)
         \o (IF countdown.minutes > 0 \/ countdown.hours > 0 \/ countdown.days > 0
             THEN <<<<countdown.minutes, "m">>>> ELSE <<>>)
         \o <<<<countdown.seconds, "s">>>>

-----------------------------------------------------------------------------
(* Strings *)

Whitespace == {" "}

RECURSIVE trimStart(_)
trimStart(s) ==
    IF s # <<>> /\ Head(s) \in Whitespace THEN trimStart(Tail(s)) ELSE s

RECURSIVE trimEnd(_)
trimEnd(s) ==
    IF s # <<>> /\ s[Len(s)] \in Whitespace
    THEN trimEnd(SubSeq(s, 1, Len(s) - 1))
    ELSE s

\* String.prototype.trim
trim(s) == trimEnd(trimStart(s))

RECURSIVE Repeat(_, _)
Repeat(c, n) == IF n = 0 THEN <<>> ELSE <<c>> \o Repeat(c, n - 1)

-----------------------------------------------------------------------------
(* FormValidator *)

MinTitleLength == 3

MaxTitleLength == 100

\* validateTitle without its lower length bound
validateTitleNoMinimum(title) ==
    IF ~Truthy(title) \/ Len(trim(title)) = 0
    THEN [valid |-> FALSE, message |-> "Event title is required"]
    ELSE IF Len(trim(title)) > MaxTitleLength
    THEN [valid |-> FALSE, message |-> "Event title must not exceed 100 characters"]
    ELSE [valid |-> TRUE, message |-> ""]

validateTitle(title) ==
    IF ~Truthy(title) \/ Len(trim(title)) = 0
    THEN [valid |-> FALSE, message |-> "Event title is required"]
    ELSE IF Len(trim(title)) < MinTitleLength
    THEN [valid |-> FALSE, message |-> "Event title must be at least 3 characters"]
    ELSE IF Len(trim(title)) > MaxTitleLength
    THEN [valid |-> FALSE, message |-> "Event title must not exceed 100 characters"]
    ELSE [valid |-> TRUE, message |-> ""]

validateDate(dateString, zone) ==
    IF ~Truthy(dateString)
    THEN [valid |-> FALSE, message |-> "Event date is required"]
    ELSE IF parseDate(dateString, zone) = NaN
    THEN [valid |-> FALSE, message |-> "Invalid date format"]
    ELSE [valid |-> TRUE, message |-> ""]

\* a validation that stops at the first field in error
validateFirstField(formData, zone) ==
    [isValid |-> validateTitle(formData.title).valid
                 /\ validateDate(formData.date, zone).valid,
     errors |-> IF ~validateTitle(formData.title).valid THEN {"title"}
                ELSE IF ~validateDate(formData.date, zone).valid THEN {"date"}
                ELSE {}]

\* errors: the fields that got a message
validateForm(formData, zone) ==
    LET titleValidation == validateTitle(formData.title)
        dateValidation == validateDate(formData.date, zone)
        errors == (IF titleValidation.valid THEN {} ELSE {"title"})
                  \cup (IF dateValidation.valid THEN {} ELSE {"date"})
    IN  [isValid |-> titleValidation.valid /\ dateValidation.valid,
         errors |-> errors]

-----------------------------------------------------------------------------
(* JSON text of the events key *)

\* a stringify that leaves the description out
stringifyItemShort(e) ==
    IF e.k # "obj" THEN e
    ELSE [key \in {x \in DOMAIN e : x = "k" \/ (e[x] # Undefined /\ x # "description")}
            |-> e[key]]

\* JSON.stringify of one array element: properties holding undefined are dropped
stringifyItem(e) ==
    IF e.k # "obj" THEN e
    ELSE [key \in {x \in DOMAIN e : x = "k" \/ e[x] # Undefined} |-> e[key]]

\* JSON.stringify(array)
RECURSIVE stringifyItems(_)
stringifyItems(E) ==
    IF E = <<>> THEN <<>>
    ELSE <<stringifyItem(Head(E))>> \o stringifyItems(Tail(E))

stringify(E) ==
    [kind |-> "text", json |-> "array", items |-> stringifyItems(E)]

AbsentKey == [kind |-> "absent"]

Unreadable == [kind |-> "unreadable"]

-----------------------------------------------------------------------------
(* StateManager *)

generateId(clock, rnd) == <<clock, rnd>>

toISOString(clock) == <<"t", clock>>

\* Whether localStorage.setItem accepts a write: not when access to the
\* storage throws, nor when the quota is used up
acceptsWrites(st) == st.kind # "unreadable" /\ ~("full" \in DOMAIN st)

\* saveToStorage: the new value of the key, and the boolean returned
saveToStorage(E, st) ==
    IF acceptsWrites(st)
    THEN [storage |-> stringify(E), saved |-> TRUE]
    ELSE [storage |-> st, saved |-> FALSE]

\* One element of the stored array through the repair of loadFromStorage
repairEvent(event, clock, rnd) ==
    [k |-> "obj",
     id |-> IF Truthy(Get(event, "id")) THEN Get(event, "id")
            ELSE generateId(clock, rnd),
     title |-> IF Truthy(Get(event, "title")) THEN Get(event, "title")
               ELSE <<"U", "n", "t", "i", "t", "l", "e", "d", " ",
                      "E", "v", "e", "n", "t">>,
     date |-> Get(event, "date"),
     description |-> IF Truthy(Get(event, "description"))
                     THEN Get(event, "description") ELSE EmptyString,
     createdAt |-> IF Truthy(Get(event, "createdAt")) THEN Get(event, "createdAt")
                   ELSE toISOString(clock)]

RECURSIVE repairFrom(_, _, _, _)
repairFrom(items, clock, rnds, i) ==
    IF i > Len(items) THEN <<>>
    ELSE <<repairEvent(items[i], clock, rnds[i])>>
         \o repairFrom(items, clock, rnds, i + 1)

\* loadFromStorage: the events it leaves.  rnds[i] is what Math.random gives
\* for the i-th element, should it need an id.
loadFromStorage(st, clock, rnds) ==
    IF st.kind = "unreadable" THEN <<>>                 \* getItem throws
    ELSE IF st.kind = "absent" \/ st.json = "empty" THEN <<>>
    ELSE IF st.json # "array" THEN <<>>                 \* parse or .map throws
    ELSE IF \E i \in 1..Len(st.items) : st.items[i].k = "null" THEN <<>>
    ELSE repairFrom(st.items, clock, rnds, 1)

\* findIndex(event => event.id === eventId); 0 stands for -1
RECURSIVE findIndexFrom(_, _, _)
findIndexFrom(E, eventId, i) ==
    IF i > Len(E) THEN 0
    ELSE IF Get(E[i], "id") = eventId THEN i
    ELSE findIndexFrom(E, eventId, i + 1)

findIndex(E, eventId) == findIndexFrom(E, eventId, 1)

\* what find() gives when no element matches
UndefinedItem == [k |-> "undefined"]

\* getEventById: this.events.find(event => event.id === eventId)
getEventById(E, eventId) ==
    IF findIndex(E, eventId) = 0 THEN UndefinedItem ELSE E[findIndex(E, eventId)]

addEvent(E, st, eventData, clock, rnd) ==
    LET newEvent == [k |-> "obj",
                     id |-> generateId(clock, rnd),
                     title |-> trim(eventData.title),
                     date |-> eventData.date,
                     description |-> trim(eventData.description),
                     createdAt |-> toISOString(clock)]
        pushed == Append(E, newEvent)
        w == saveToStorage(pushed, st)
    IN  [events |-> pushed, storage |-> w.storage, saved |-> w.saved,
         newEvent |-> newEvent]

\* splice(index, 1)
splice(E, index) ==
    SubSeq(E, 1, index - 1) \o SubSeq(E, index + 1, Len(E))

\* a delete that takes the record out only when the write went through
deleteEventIfSaved(E, st, eventId) ==
    IF findIndex(E, eventId) # 0 /\ acceptsWrites(st)
    THEN [events |-> splice(E, findIndex(E, eventId)),
          storage |-> stringify(splice(E, findIndex(E, eventId))),
          saved |-> TRUE, wrote |-> TRUE, ret |-> TRUE]
    ELSE [events |-> E, storage |-> st, saved |-> FALSE,
          wrote |-> findIndex(E, eventId) # 0, ret |-> findIndex(E, eventId) # 0]

deleteEvent(E, st, eventId) ==
    LET index == findIndex(E, eventId)
    IN  IF index # 0
        THEN LET w == saveToStorage(splice(E, index), st)
             IN  [events |-> splice(E, index), storage |-> w.storage,
                  saved |-> w.saved, wrote |-> TRUE, ret |-> TRUE]
        ELSE [events |-> E, storage |-> st, saved |-> FALSE, wrote |-> FALSE,
              ret |-> FALSE]

\* an update that builds the record anew, as addEvent does, keeping only the id
spreadUpdateAnew(old, eventData) ==
    [k |-> "obj",
     id |-> old.id,
     title |-> trim(eventData.title),
     date |-> eventData.date,
     description |-> trim(eventData.description),
     createdAt |-> Undefined]

\* { ...old, title, date, description }
spreadUpdate(old, eventData) ==
    [key \in DOMAIN old \cup {"title", "date", "description"} |->
        CASE key = "title" -> trim(eventData.title)
          [] key = "date" -> eventData.date
          [] key = "description" -> trim(eventData.description)
          [] OTHER -> old[key]]

updateEvent(E, st, eventId, eventData) ==
    LET index == findIndex(E, eventId)
    IN  IF index # 0
        THEN LET replaced == [E EXCEPT ![index] = spreadUpdate(E[index], eventData)]
                 w == saveToStorage(replaced, st)
             IN  [events |-> replaced, storage |-> w.storage, saved |-> w.saved,
                  wrote |-> TRUE, found |-> TRUE]
        ELSE [events |-> E, storage |-> st, saved |-> FALSE, wrote |-> FALSE,
              found |-> FALSE]

\* the comparator of getSortedEvents: new Date(a.date) - new Date(b.date) < 0;
\* a NaN difference counts as 0
dateBefore(a, b) ==
    /\ NewDate(Get(a, "date")) # NaN
    /\ NewDate(Get(b, "date")) # NaN
    /\ NewDate(Get(a, "date")) < NewDate(Get(b, "date"))

\* stable insertion of x into the sorted list S, after every element it does
\* not come before
RECURSIVE insertSorted(_, _)
insertSorted(S, x) ==
    IF S # <<>> /\ dateBefore(x, S[Len(S)])
    THEN Append(insertSorted(SubSeq(S, 1, Len(S) - 1), x), S[Len(S)])
    ELSE Append(S, x)

RECURSIVE sortFrom(_, _, _)
sortFrom(E, S, i) ==
    IF i > Len(E) THEN S ELSE sortFrom(E, insertSorted(S, E[i]), i + 1)

\* [...this.events].sort(by date): Array.prototype.sort is stable
getSortedEvents(E) == sortFrom(E, <<>>, 1)

-----------------------------------------------------------------------------
(* The static server (server.js).  A path is the sequence of its segments,  *)
(* a segment and a path string are sequences of characters.                 *)

Dot == <<".">>

DotDot == <<".", ".">>

\* path.resolve(base, path) for an absolute base: '.' is dropped, '..' takes
\* the last segment off and stays at the root
RECURSIVE resolveFrom(_, _, _)
resolveFrom(base, segments, i) ==
    IF i > Len(segments) THEN base
    ELSE resolveFrom(IF segments[i] = Dot THEN base
                     ELSE IF segments[i] = DotDot
                     THEN SubSeq(base, 1, Len(base) - 1)
                     ELSE Append(base, segments[i]),
                     segments, i + 1)

resolve(base, segments) == resolveFrom(base, segments, 1)

\* the string of an absolute path: '/' alone for the root
RECURSIVE joined(_)
joined(segments) ==
    IF segments = <<>> THEN <<>>
    ELSE <<"/">> \o Head(segments) \o joined(Tail(segments))

pathString(segments) == IF segments = <<>> THEN <<"/">> ELSE joined(segments)

\* whether one path lies in or is the other, segment by segment
within(path, dir) ==
    Len(path) >= Len(dir) /\ SubSeq(path, 1, Len(dir)) = dir

\* String.prototype.startsWith
startsWith(string, prefix) ==
    Len(string) >= Len(prefix) /\ SubSeq(string, 1, Len(prefix)) = prefix

\* __dirname, the served directory /s/a; beside it lies /s/ab
Dirname == <<<<"s">>, <<"a">>>>

IndexHtml == <<"i", "n", "d", "e", "x", ".", "h", "t", "m", "l">>

\* The files on the disk
Files ==
    {Dirname \o <<IndexHtml>>, Dirname \o <<<<"f">>>>,
     <<<<"s">>, <<"a", "b">>, <<"f">>>>, <<<<"s">>, <<"f">>>>}

Directories == {<<>>, <<<<"s">>>>, Dirname, <<<<"s">>, <<"a", "b">>>>}

Response(url, status, body) == [url |-> url, status |-> status, body |-> body]

\* The request handler: the response to a request for req.url, whose path
\* segments are `url`, by a server whose working directory is cwd.  The body
\* of a 200 is the file read, named by its absolute path.
requestHandler(url, cwd) ==
    LET filePath == IF url = <<>> THEN <<Dot, IndexHtml>> ELSE <<Dot>> \o url
        absolutePath == resolve(Dirname, filePath)
        read == resolve(cwd, filePath)             \* fs.readFile(filePath)
    IN  IF ~startsWith(pathString(absolutePath), pathString(Dirname))
        THEN Response(url, 403, <<>>)
        ELSE IF read \in Files THEN Response(url, 200, read)
        ELSE IF read \in Directories THEN Response(url, 403, <<>>)   \* EISDIR
        ELSE Response(url, 404, <<>>)

ServerIdle == [cwd |-> Dirname, url |-> <<>>, status |-> 0, body |-> <<>>]

-----------------------------------------------------------------------------
(* EmailService *)

\* a send for every new event, and one more when it is slow
sendAndSendAgain(P, loaded, eventData) ==
    IF ~loaded THEN P ELSE P \o <<eventData.id, eventData.id>>

\* sendNewEventNotification, up to its await: what is in flight after it.
\* Without the library it logs and resolves to false at once.
sendNewEventNotification(P, loaded, eventData) ==
    IF ~loaded THEN P ELSE Append(P, eventData.id)

\* today.toISOString().split('T')[0]: the calendar date in UTC of an instant
isoDay(t) == DateOfDayNumber(t \div SecondsPerDay)

\* sendEventReminder: the reminders handed to emailjs.send after it.  Without
\* the library it logs and resolves to false at once.
sendEventReminder(S, loaded, eventData, clock, zone) ==
    IF ~loaded THEN S
    ELSE Append(S, <<Get(eventData, "id"), DateOfDayNumber(LocalDay(clock, zone))>>)

\* checkAndSendReminders from the i-th of the sorted events on: the reminder
\* keys R and the reminders sent S it leaves, and whether setItem threw
RECURSIVE remindFrom(_, _, _, _, _, _, _, _)
remindFrom(sorted, i, clock, zone, st, R, S, loaded) ==
    IF i > Len(sorted) THEN [reminded |-> R, sent |-> S, raised |-> FALSE]
    ELSE IF isToday(Get(sorted[i], "date"), clock, zone)
            /\ <<Get(sorted[i], "id"), isoDay(getToday(clock, zone))>> \notin R
    THEN IF acceptsWrites(st)
         THEN remindFrom(sorted, i + 1, clock, zone, st,
                         R \cup {<<Get(sorted[i], "id"),
                                   isoDay(getToday(clock, zone))>>},
                         sendEventReminder(S, loaded, sorted[i], clock, zone),
                         loaded)
         ELSE [reminded |-> R,
               sent |-> sendEventReminder(S, loaded, sorted[i], clock, zone),
               raised |-> TRUE]
    ELSE remindFrom(sorted, i + 1, clock, zone, st, R, S, loaded)

checkAndSendReminders(E, clock, zone, st, R, S, loaded) ==
    remindFrom(getSortedEvents(E), 1, clock, zone, st, R, S, loaded)

\* P without its i-th element
settle(P, i) == SubSeq(P, 1, i - 1) \o SubSeq(P, i + 1, Len(P))

-----------------------------------------------------------------------------
(* UIRenderer and CountdownManager *)

\* the countdown text of a card before updateAllCountdowns has reached it
CalculatingText == <<<<0, "Calculating...">>>>

\* a card without a countdown element
NoCountdown == <<>>

\* createEventCard: the card's event id, the date of its countdown element,
\* its status class and its countdown text
eventCard(event, clock, zone) ==
    [id |-> Get(event, "id"), date |-> Get(event, "date"),
     status |-> getEventStatus(Get(event, "date"), clock, zone),
     text |-> IF getEventStatus(Get(event, "date"), clock, zone) # "past"
              THEN CalculatingText ELSE NoCountdown]

\* updateAllCountdowns over the cards C: a card made with status 'past' has
\* no countdown element
countdownTexts(C, clock, frac, zone) ==
    [i \in 1..Len(C) |->
        IF C[i].text = NoCountdown THEN C[i]
        ELSE [C[i] EXCEPT !.text = formatCountdown(
                                       getCountdown(C[i].date, clock, frac, zone))]]

\* renderEvents: a card for every event, in sorted order, and their countdowns
renderEvents(E, clock, frac, zone) ==
    LET sorted == getSortedEvents(E)
    IN  countdownTexts([i \in 1..Len(sorted) |-> eventCard(sorted[i], clock, zone)],
                       clock, frac, zone)

\* new Date().toISOString().split('T')[0]: the calendar date in UTC
toISODate(clock, zone) == DateOfDayNumber(clock \div SecondsPerDay)

\* setInterval: a handle no running interval has
newInterval(running) ==
    <<"interval",
      CHOOSE n \in 1..(Cardinality(running) + 1) : <<"interval", n>> \notin running>>

\* new Date().toDateString(): the local calendar date
toDateString(clock, zone) == DateOfDayNumber(LocalDay(clock, zone))

-----------------------------------------------------------------------------
(* Bounds and the inputs tried *)

MaxEvents == 2      \* handleSubmit adds only while the store is smaller

MaxClock == 1       \* the clock of a run is read in its first MaxClock seconds

\* The page is opened at one in the morning of 1 January 2026, five hours west
\* of Greenwich: no event that is stored or entered is due that day
PageOpened == SecondsPerDay \div 4

Westward == FixedZone(0 - 5 * 3600)

Clocks == PageOpened..(PageOpened + MaxClock)

RandomSuffixes == {0, 1}

MaxStored == 3      \* the longest array in a backup file or in the storage

MaxReminders == 3   \* reminders are checked only while no more have been sent

MaxPending == 2     \* handleSubmit adds only while fewer sends are in flight

Form(title, date, description) ==
    [title |-> title, date |-> date, description |-> description]

\* What the user submits: title, date and description of the form
ValidForms ==
    {Form(<<" ", "a", "b", "c", " ">>, <<2026, 1, 1>>, <<" ", "x">>),
     Form(Repeat("a", MaxTitleLength), <<2026, 3, 1>>, EmptyString)}

InvalidForms ==
    {Form(EmptyString, <<2026, 1, 1>>, EmptyString),
     Form(<<" ", " ", " ">>, <<2026, 1, 1>>, EmptyString),
     Form(<<"a", "b">>, <<2026, 3, 1>>, EmptyString),
     Form(<<" ", "a", "b", " ">>, <<2026, 1, 1>>, <<" ", "x">>),
     Form(Repeat("a", MaxTitleLength + 1), <<2026, 1, 1>>, EmptyString),
     Form(<<"a", "b", "c">>, EmptyString, EmptyString),
     Form(<<"a", "b", "c">>, NotADate, EmptyString),
     Form(<<"a", "b">>, EmptyString, EmptyString)}

Forms == ValidForms \cup InvalidForms

\* Records of a backup file, written before the run began
BackupA ==
    [k |-> "obj", id |-> <<-1, 0>>, title |-> <<"a", "b", "c">>,
     date |-> <<2026, 3, 1>>, description |-> EmptyString,
     createdAt |-> <<"t", -1>>]

BackupB ==
    [k |-> "obj", id |-> <<-1, 0>>, title |-> <<"a", "b", "c", "d">>,
     date |-> <<2026, 1, 1>>, description |-> <<"x">>,
     createdAt |-> <<"t", -1>>]

BackupNoId == [k |-> "obj", title |-> <<"a", "b", "c">>, date |-> <<2026, 1, 1>>]

BackupBad ==
    [k |-> "obj", id |-> <<-1, 1>>, title |-> <<"a", "b">>,
     description |-> EmptyString, createdAt |-> <<"t", -1>>]

BackupC ==
    [k |-> "obj", id |-> <<-1, 2>>, title |-> <<"a", "b", "c">>,
     date |-> <<2026, 1, 1>>, description |-> EmptyString,
     createdAt |-> <<"t", -1>>]

NumberItem == [k |-> "prim"]

NullItem == [k |-> "null"]

EmptyObject == [k |-> "obj"]

Text(json) == [kind |-> "text", json |-> json]

ArrayText(items) == [kind |-> "text", json |-> "array", items |-> items]

\* What the events key may hold when the page is first opened
StoredAtStartup ==
    {AbsentKey, Unreadable,
     Text("empty"), Text("invalid"), Text("object"), Text("number"), Text("null"),
     ArrayText(<<>>), ArrayText(<<NumberItem>>), ArrayText(<<NullItem>>),
     ArrayText(<<EmptyObject>>), ArrayText(<<BackupA>>),
     ArrayText(<<BackupA, NullItem>>),
     [kind |-> "text", json |-> "array", items |-> <<BackupA>>, full |-> TRUE]}

\* CategoryManager.loadCategories: the stored list, or three categories when
\* nothing is stored
DefaultCategories == <<"work", "personal", "family">>

loadCategories(stored) == IF stored = Null THEN DefaultCategories ELSE stored

\* The backup files offered to importData
ImportFiles ==
    {[json |-> "invalid"],
     [json |-> "object", hasEvents |-> FALSE],
     [json |-> "object", hasEvents |-> TRUE, events |-> <<>>],
     [json |-> "object", hasEvents |-> TRUE, events |-> <<BackupA>>],
     [json |-> "object", hasEvents |-> TRUE, events |-> <<BackupA, BackupB>>],
     [json |-> "object", hasEvents |-> TRUE, events |-> <<BackupNoId>>],
     [json |-> "object", hasEvents |-> TRUE, events |-> <<BackupA, BackupBad, BackupC>>]}

\* The ids a handler may be called with
EventIds ==
    {generateId(c, r) : c \in Clocks, r \in RandomSuffixes}
    \cup {<<-1, 0>>, <<-1, 1>>, <<-1, 2>>}

-----------------------------------------------------------------------------
(* Handlers *)

NoNotification == [type |-> "none", title |-> ""]

Success(title) == [type |-> "success", title |-> title]

Failure(title) == [type |-> "error", title |-> title]

Outcome(op, ret, id, notif, errors, saved) ==
    [op |-> op, ret |-> ret, id |-> id, notif |-> notif, errors |-> errors,
     saved |-> saved]

NoOutcome == Outcome("none", "", Undefined, NoNotification, {}, "none")

Saved(r) == IF r.saved THEN "ok" ELSE "failed"

\* initApp at page load.  ThemeManager.init reads localStorage outside any
\* try: when the access throws, initApp ends there, before StateManager.init
\* and before any listener is attached.  Otherwise StateManager.init loads the
\* events and the page starts taking input.
initApp(rnds) ==
    /\ pc = "boot"
    /\ IF storage.kind = "unreadable"
       THEN /\ pc' = "failed"
            /\ last' = Outcome("load", "raised", Undefined, NoNotification, {},
                               "none")
            /\ UNCHANGED events
            /\ UNCHANGED <<cards, intervalId, intervals, reminded, sent, categories>>
       ELSE LET r == checkAndSendReminders(loadFromStorage(storage, now, rnds),
                                           now, tz, storage, reminded, sent,
                                           emailjs)
            IN  /\ Len(r.sent) <= MaxReminders
                /\ events' = loadFromStorage(storage, now, rnds)
                /\ categories' = loadCategories(categoriesStored)
                /\ cards' = renderEvents(events', now, 0, tz)
                /\ intervalId' = newInterval(intervals)  \* CountdownManager.start
                /\ intervals' = intervals \cup {intervalId'}
                /\ reminded' = r.reminded
                /\ sent' = r.sent
                \* a setItem that throws in checkAndSendReminders ends initApp
                \* before the listeners are attached
                /\ pc' = IF r.raised THEN "failed" ELSE "running"
                /\ last' = Outcome("load",
                                   IF r.raised THEN "raised" ELSE "completed",
                                   Undefined, NoNotification, {}, "none")
    /\ UNCHANGED <<storage, editMode, editingEventId, now, tz, view>>
    /\ UNCHANGED <<backup, hidden, lastCheckedDate, emailjs, pending, server,
                   categoriesStored>>

\* The user reloads the page: the script's state is gone, the storage stays
Reload ==
    /\ pc \in {"running", "failed"}
    /\ pc' = "boot"
    /\ events' = <<>>
    /\ editMode' = FALSE
    /\ editingEventId' = Null
    /\ last' = NoOutcome
    /\ cards' = <<>>
    /\ intervalId' = Null
    /\ intervals' = {}
    /\ lastCheckedDate' = Null
    /\ pending' = <<>>
    /\ categories' = <<>>
    /\ UNCHANGED <<storage, now, tz, view, backup, hidden, emailjs, server,
                   reminded, sent, categoriesStored>>

Tick ==
    /\ now < PageOpened + MaxClock
    /\ now' = now + 1
    /\ UNCHANGED <<events, storage, editMode, editingEventId, tz, pc, last, view>>
    /\ UNCHANGED <<cards, others>>

handleSubmit(formData, rnd) ==
    LET validation == validateForm(formData, tz)
    IN  /\ pc = "running"
        /\ IF ~validation.isValid
           THEN /\ last' = Outcome("submit", "invalid", Undefined, NoNotification,
                                   validation.errors, "none")
                /\ UNCHANGED <<events, storage, editMode, editingEventId, cards,
                               pending>>
           ELSE IF editMode /\ Truthy(editingEventId)
           THEN LET r == updateEvent(events, storage, editingEventId, formData)
                IN  /\ events' = r.events
                    /\ storage' = r.storage
                    /\ editMode' = FALSE
                    /\ editingEventId' = Null
                    /\ last' = Outcome("submit",
                                       IF r.found THEN "updated" ELSE "notfound",
                                       Undefined, Success("Event Updated!"), {},
                                       IF r.wrote THEN Saved(r) ELSE "none")
                    /\ cards' = renderEvents(events', now, 0, tz)
                    /\ UNCHANGED pending
           ELSE LET r == addEvent(events, storage, formData, now, rnd)
                IN  /\ Len(events) < MaxEvents
                    /\ emailjs => Len(pending) < MaxPending
                    /\ events' = r.events
                    /\ storage' = r.storage
                    /\ last' = Outcome("submit", "added", r.newEvent.id,
                                       Success("Event Added!"), {}, Saved(r))
                    /\ pending' = sendNewEventNotification(pending, emailjs,
                                                           r.newEvent)
                    /\ cards' = renderEvents(events', now, 0, tz)
                    /\ UNCHANGED <<editMode, editingEventId>>
        /\ UNCHANGED <<now, tz, pc, view>>
        /\ UNCHANGED <<backup, timers, emailjs, server, reminded, sent, categories,
                       categoriesStored>>

handleDelete(eventId, confirmed) ==
    /\ pc = "running"
    /\ IF confirmed
       THEN LET r == deleteEvent(events, storage, eventId)
            IN  /\ events' = r.events
                /\ storage' = r.storage
                /\ last' = Outcome("delete", IF r.ret THEN "true" ELSE "false",
                                   IF r.ret THEN eventId ELSE Undefined,
                                   IF r.ret THEN Success("Event Deleted")
                                   ELSE NoNotification,
                                   {}, IF r.wrote THEN Saved(r) ELSE "none")
                /\ cards' = renderEvents(events', now, 0, tz)
       ELSE /\ last' = Outcome("delete", "declined", Undefined, NoNotification, {},
                               "none")
            /\ UNCHANGED <<events, storage, cards>>
    /\ UNCHANGED <<editMode, editingEventId, now, tz, pc, view>>
    /\ UNCHANGED others

handleEdit(eventId) ==
    LET event == getEventById(events, eventId)
    IN  /\ pc = "running"
        /\ IF event # UndefinedItem
           THEN /\ editMode' = TRUE
                /\ editingEventId' = Get(event, "id")
                /\ last' = Outcome("edit", "found", Undefined, NoNotification, {},
                                   "none")
           ELSE /\ last' = Outcome("edit", "missing", Undefined, NoNotification, {},
                                   "none")
                /\ UNCHANGED <<editMode, editingEventId>>
        /\ UNCHANGED <<events, storage, now, tz, pc, view>>
        /\ UNCHANGED <<cards, others>>

handleCancelEdit ==
    /\ pc = "running"
    /\ editMode
    /\ editMode' = FALSE
    /\ editingEventId' = Null
    /\ last' = Outcome("cancel", "", Undefined, NoNotification, {}, "none")
    /\ UNCHANGED <<events, storage, now, tz, pc, view>>
    /\ UNCHANGED <<cards, others>>

\* The onload callback of importData's reader.  A throw inside its try (of
\* JSON.parse, of saveCategories on a full storage, of data.events.length when
\* the file has no events) ends it there with "Import Failed".
importData(file) ==
    /\ pc = "running"
    /\ IF file.json = "invalid"
       THEN /\ last' = Outcome("import", "failed", Undefined,
                               Failure("Import Failed"), {}, "none")
            /\ UNCHANGED <<events, storage, cards, categories, categoriesStored>>
       ELSE LET w == saveToStorage(file.events, storage)
                hasCategories == "categories" \in DOMAIN file
                E == IF file.hasEvents THEN file.events ELSE events
                st == IF file.hasEvents THEN w.storage ELSE storage
                raised == hasCategories /\ ~acceptsWrites(st)
            IN  /\ events' = E
                /\ storage' = st
                /\ categories' = IF hasCategories THEN file.categories
                                 ELSE categories
                /\ categoriesStored' = IF hasCategories /\ ~raised
                                       THEN file.categories ELSE categoriesStored
                /\ cards' = IF raised THEN cards ELSE renderEvents(E, now, 0, tz)
                /\ last' = IF raised \/ ~file.hasEvents
                           THEN Outcome("import", "failed", Undefined,
                                        Failure("Import Failed"), {},
                                        IF file.hasEvents THEN Saved(w) ELSE "none")
                           ELSE Outcome("import", "ok", Undefined,
                                        Success("Import Successful"), {}, Saved(w))
    /\ UNCHANGED <<editMode, editingEventId, now, tz, pc, view>>
    /\ UNCHANGED <<backup, timers, emailjs, pending, server, reminded, sent>>

clearAllData(confirmed) ==
    /\ pc = "running"
    /\ IF confirmed
       THEN /\ storage' = AbsentKey
            /\ events' = <<>>
            /\ last' = Outcome("clear", "cleared", Undefined,
                               Success("Data Cleared"), {}, "none")
            /\ cards' = renderEvents(events', now, 0, tz)
            /\ reminded' = {}                              \* localStorage.clear()
            /\ categoriesStored' = Null
            /\ categories' = <<>>
       ELSE /\ last' = Outcome("clear", "declined", Undefined, NoNotification, {},
                               "none")
            /\ UNCHANGED <<events, storage, cards, reminded, categories,
                           categoriesStored>>
    /\ UNCHANGED <<editMode, editingEventId, now, tz, pc, view>>
    /\ UNCHANGED <<backup, timers, emailjs, pending, server, sent>>

-----------------------------------------------------------------------------
(* The store and its handlers *)

\* the countdown of a card before updateAllCountdowns has reached it
NotCounted ==
    [days |-> 0, hours |-> 0, minutes |-> 0, seconds |-> 0, isPast |-> FALSE]

NoView ==
    [date |-> Undefined, status |-> "", at |-> 0,
     counted |-> FALSE, countdown |-> NotCounted, countedAt |-> <<0, 0>>,
     text |-> CalculatingText, label |-> <<>>]

NoFile == [json |-> "none"]

Init ==
    /\ events = <<>>
    /\ storage \in StoredAtStartup
    /\ editMode = FALSE
    /\ editingEventId = Null
    /\ now = PageOpened
    /\ tz = Westward
    /\ pc = "boot"
    /\ last = NoOutcome
    /\ view = NoView
    /\ backup = NoFile
    /\ cards = <<>>
    /\ hidden = FALSE
    /\ intervalId = Null
    /\ intervals = {}
    /\ lastCheckedDate = Null
    /\ emailjs = FALSE
    /\ pending = <<>>
    /\ server = ServerIdle
    /\ reminded = {}
    /\ sent = <<>>
    /\ categories = <<>>
    /\ categoriesStored = Null

Next ==
    \/ \E rnds \in [1..MaxStored -> RandomSuffixes] : initApp(rnds)
    \/ Reload
    \/ Tick
    \/ \E formData \in Forms, rnd \in RandomSuffixes : handleSubmit(formData, rnd)
    \/ \E eventId \in EventIds, confirmed \in BOOLEAN :
          handleDelete(eventId, confirmed)
    \/ \E eventId \in EventIds : handleEdit(eventId)
    \/ handleCancelEdit
    \/ \E file \in ImportFiles : importData(file)

Spec == Init /\ [][Next]_vars

-----------------------------------------------------------------------------
(* The date classifier on its own: cards drawn at several times of day, in  *)
(* several time zones                                                        *)

\* New York in 2026: clocks go forward on March 8 and back on November 1
NewYork ==
    [std |-> 0 - 5 * 3600, dst |-> 0 - 4 * 3600,
     from |-> DayNumber(2026, 3, 8) * SecondsPerDay + 7 * 3600,
     until |-> DayNumber(2026, 11, 1) * SecondsPerDay + 6 * 3600]

India == FixedZone(5 * 3600 + 1800)

TimeZones == {NewYork, UTC, India}

\* Midnight UTC of the days the clock starts on
StartInstants ==
    {DayNumber(2026, 1, 8) * SecondsPerDay, DayNumber(2026, 1, 10) * SecondsPerDay,
     DayNumber(2026, 1, 28) * SecondsPerDay, DayNumber(2026, 3, 9) * SecondsPerDay,
     DayNumber(2026, 11, 1) * SecondsPerDay}

QuarterDay == SecondsPerDay \div 4

\* The event dates on the cards
CardDates ==
    {<<2026, 1, 9>>, <<2026, 1, 10>>, <<2026, 1, 11>>, <<2026, 1, 16>>,
     <<2026, 1, 17>>, <<2026, 1, 18>>, <<2026, 1, 27>>, <<2026, 1, 28>>,
     <<2026, 2, 3>>, <<2026, 2, 4>>, <<2026, 2, 5>>, <<2026, 3, 8>>,
     <<2026, 11, 2>>}

\* createEventCard: the status class given to the card of an event
createEventCard(date) ==
    /\ view' = [date |-> date, status |-> getEventStatus(date, now, tz), at |-> now,
                counted |-> FALSE, countdown |-> NotCounted, countedAt |-> <<0, 0>>,
                text |-> CalculatingText,
                label |-> formatDateRelative(date, now, tz)]
    /\ UNCHANGED <<events, storage, editMode, editingEventId, now, tz, pc, last>>
    /\ UNCHANGED <<cards, others>>

\* updateAllCountdowns, for the card on view: a card made with status 'past'
\* has no countdown element.  `frac` is the sub-second part of the clock.
updateAllCountdowns(frac) ==
    /\ view # NoView
    /\ view.status # "past"
    /\ view' = [view EXCEPT !.counted = TRUE,
                            !.countdown = getCountdown(view.date, now, frac, tz),
                            !.countedAt = <<now, frac>>,
                            !.text = formatCountdown(
                                         getCountdown(view.date, now, frac, tz))]
    /\ UNCHANGED <<events, storage, editMode, editingEventId, now, tz, pc, last>>
    /\ UNCHANGED <<cards, others>>

\* Six hours go by, within the UTC day the clock started on
HoursPass ==
    /\ now % SecondsPerDay < 3 * QuarterDay
    /\ now' = now + QuarterDay
    /\ UNCHANGED <<events, storage, editMode, editingEventId, tz, pc, last, view>>
    /\ UNCHANGED <<cards, others>>

InitDate ==
    /\ events = <<>>
    /\ storage = AbsentKey
    /\ editMode = FALSE
    /\ editingEventId = Null
    /\ now \in StartInstants
    /\ tz \in TimeZones
    /\ pc = "running"
    /\ last = NoOutcome
    /\ view = NoView
    /\ backup = NoFile
    /\ cards = <<>>
    /\ hidden = FALSE
    /\ intervalId = Null
    /\ intervals = {}
    /\ lastCheckedDate = Null
    /\ emailjs = FALSE
    /\ pending = <<>>
    /\ server = ServerIdle
    /\ reminded = {}
    /\ sent = <<>>
    /\ categories = <<>>
    /\ categoriesStored = Null

NextDate ==
    \/ \E date \in CardDates : createEventCard(date)
    \/ \E frac \in 0..(TicksPerSecond - 1) : updateAllCountdowns(frac)
    \/ HoursPass

SpecDate == InitDate /\ [][NextDate]_vars

-----------------------------------------------------------------------------
(* formatCountdown on its own, over countdowns with parts of every size      *)

CountdownDays == {0, 1, 2}

CountdownHours == {0, 1, 12, 23}

CountdownMinutes == {0, 5, 59}

CountdownSeconds == {0, 30, 59}

\* what getCountdown can return
Countdowns ==
    {[days |-> 0, hours |-> 0, minutes |-> 0, seconds |-> 0, isPast |-> TRUE]}
    \cup [days : CountdownDays, hours : CountdownHours, minutes : CountdownMinutes,
          seconds : CountdownSeconds, isPast : {FALSE}]

\* the text put into the countdown element
showCountdown ==
    /\ view.text = CalculatingText
    /\ view' = [view EXCEPT !.text = formatCountdown(view.countdown)]
    /\ UNCHANGED <<events, storage, editMode, editingEventId, now, tz, pc, last>>
    /\ UNCHANGED <<cards, others>>

InitFormat ==
    /\ events = <<>>
    /\ storage = AbsentKey
    /\ editMode = FALSE
    /\ editingEventId = Null
    /\ now = 0
    /\ tz = UTC
    /\ pc = "running"
    /\ last = NoOutcome
    /\ view \in {[NoView EXCEPT !.counted = TRUE, !.countdown = c] : c \in Countdowns}
    /\ backup = NoFile
    /\ cards = <<>>
    /\ hidden = FALSE
    /\ intervalId = Null
    /\ intervals = {}
    /\ lastCheckedDate = Null
    /\ emailjs = FALSE
    /\ pending = <<>>
    /\ server = ServerIdle
    /\ reminded = {}
    /\ sent = <<>>
    /\ categories = <<>>
    /\ categoriesStored = Null

NextFormat == showCountdown

SpecFormat == InitFormat /\ [][NextFormat]_vars

-----------------------------------------------------------------------------
(* Backups: the store with exportData, and importData reading the file back  *)

\* SettingsManager.exportData: the file holds JSON.stringify of the events
exportData ==
    /\ pc = "running"
    /\ backup' = [json |-> "object", hasEvents |-> TRUE,
                  events |-> stringifyItems(events)]
    /\ last' = Outcome("export", "", Undefined, Success("Export Successful"), {},
                       "none")
    /\ UNCHANGED <<events, storage, editMode, editingEventId, now, tz, pc, view>>
    /\ UNCHANGED <<cards, timers, emailjs, pending, server, reminded, sent,
                   categories, categoriesStored>>

\* the user picks the exported file in the import dialog
importBackup ==
    /\ backup # NoFile
    /\ importData(backup)

NextBackup ==
    \/ \E rnds \in [1..MaxStored -> RandomSuffixes] : initApp(rnds)
    \/ \E formData \in ValidForms, rnd \in RandomSuffixes : handleSubmit(formData, rnd)
    \/ \E eventId \in EventIds : handleDelete(eventId, TRUE)
    \/ \E file \in ImportFiles : importData(file)
    \/ exportData
    \/ importBackup

SpecBackup == Init /\ [][NextBackup]_vars

-----------------------------------------------------------------------------
(* The countdown interval: a page opened shown or hidden, over a midnight    *)

Stored(id, date) ==
    [k |-> "obj", id |-> id, title |-> <<"a", "b", "c">>, date |-> date,
     description |-> EmptyString, createdAt |-> <<"t", -1>>]

\* What the events key holds when the page is opened
TickStores ==
    {ArrayText(<<>>),
     ArrayText(<<Stored(<<-1, 0>>, <<2026, 1, 9>>)>>),
     ArrayText(<<Stored(<<-1, 0>>, <<2026, 1, 16>>), Stored(<<-1, 1>>, <<2026, 1, 8>>),
                 Stored(<<-1, 2>>, <<2026, 1, 9>>)>>)}

\* The clock runs from 18:00 UTC on January 8 to the end of January 9
TickStart == DayNumber(2026, 1, 8) * SecondsPerDay + 3 * QuarterDay

TickEnd == DayNumber(2026, 1, 10) * SecondsPerDay

\* The visibilitychange listener: the page is hidden or shown again.  Before
\* initApp has attached the listener nothing hears the event.
visibilitychange ==
    /\ hidden' = ~hidden
    /\ IF pc # "running"
       THEN UNCHANGED <<cards, intervalId, intervals>>
       ELSE IF hidden'
       THEN /\ intervals' =                                \* CountdownManager.stop
                IF intervalId # Null THEN intervals \ {intervalId} ELSE intervals
            /\ intervalId' = Null
            /\ UNCHANGED cards
       ELSE /\ cards' = countdownTexts(cards, now, 0, tz)  \* CountdownManager.start
            /\ intervalId' = newInterval(intervals)
            /\ intervals' = intervals \cup {intervalId'}
    /\ UNCHANGED <<events, storage, editMode, editingEventId, now, tz, pc, last,
                   view, backup, lastCheckedDate, emailjs, pending, server,
                   reminded, sent, categories, categoriesStored>>

\* The callback of a running interval: updateAllCountdowns, then checkDayChange
countdownTick(id) ==
    /\ id \in intervals
    /\ cards' = IF lastCheckedDate # Null /\ lastCheckedDate # toDateString(now, tz)
                THEN renderEvents(events, now, 0, tz)
                ELSE countdownTexts(cards, now, 0, tz)
    /\ lastCheckedDate' = toDateString(now, tz)
    /\ last' = Outcome("tick",
                       IF lastCheckedDate # Null
                          /\ lastCheckedDate # toDateString(now, tz)
                       THEN "rendered" ELSE "",
                       Undefined, NoNotification, {}, "none")
    /\ UNCHANGED <<events, storage, editMode, editingEventId, now, tz, pc, view,
                   backup, hidden, intervalId, intervals, emailjs, pending,
                   server, reminded, sent, categories, categoriesStored>>

\* Six hours go by
ClockRuns ==
    /\ now < TickEnd
    /\ now' = now + QuarterDay
    /\ UNCHANGED <<events, storage, editMode, editingEventId, tz, pc, last, view>>
    /\ UNCHANGED <<cards, others>>

InitTick ==
    /\ events = <<>>
    /\ storage \in TickStores
    /\ editMode = FALSE
    /\ editingEventId = Null
    /\ now = TickStart
    /\ tz \in TimeZones
    /\ pc = "boot"
    /\ last = NoOutcome
    /\ view = NoView
    /\ backup = NoFile
    /\ cards = <<>>
    /\ hidden \in BOOLEAN
    /\ intervalId = Null
    /\ intervals = {}
    /\ lastCheckedDate = Null
    /\ emailjs = FALSE
    /\ pending = <<>>
    /\ server = ServerIdle
    /\ reminded = {}
    /\ sent = <<>>
    /\ categories = <<>>
    /\ categoriesStored = Null

NextTick ==
    \/ \E rnds \in [1..MaxStored -> RandomSuffixes] : initApp(rnds)
    \/ Reload
    \/ visibilitychange
    \/ \E id \in intervals : countdownTick(id)
    \/ ClockRuns

SpecTick == InitTick /\ [][NextTick]_vars

-----------------------------------------------------------------------------
(* The e-mail of a new event: the library loaded or not, sends that succeed, *)
(* fail or stay in flight                                                    *)

\* The promise of emailjs.send settles: the await in sendNewEventNotification
\* returns or throws, and handleSubmit's then-callback logs the result
emailSettles(i, ok) ==
    /\ i \in 1..Len(pending)
    /\ pending' = settle(pending, i)
    /\ last' = Outcome("mail", IF ok THEN "sent" ELSE "failed", pending[i],
                       NoNotification, {}, "none")
    /\ UNCHANGED <<events, storage, editMode, editingEventId, now, tz, pc, view,
                   backup, cards, timers, emailjs, server, reminded, sent,
                   categories, categoriesStored>>

MailStores ==
    {AbsentKey, [kind |-> "text", json |-> "array", items |-> <<>>, full |-> TRUE]}

InitMail ==
    /\ events = <<>>
    /\ storage \in MailStores
    /\ editMode = FALSE
    /\ editingEventId = Null
    /\ now = PageOpened
    /\ tz = Westward
    /\ pc = "boot"
    /\ last = NoOutcome
    /\ view = NoView
    /\ backup = NoFile
    /\ cards = <<>>
    /\ hidden = FALSE
    /\ intervalId = Null
    /\ intervals = {}
    /\ lastCheckedDate = Null
    /\ emailjs \in BOOLEAN
    /\ pending = <<>>
    /\ server = ServerIdle
    /\ reminded = {}
    /\ sent = <<>>
    /\ categories = <<>>
    /\ categoriesStored = Null

NextMail ==
    \/ \E rnds \in [1..MaxStored -> RandomSuffixes] : initApp(rnds)
    \/ Tick
    \/ \E formData \in ValidForms, rnd \in RandomSuffixes :
          handleSubmit(formData, rnd)
    \/ \E eventId \in EventIds : handleDelete(eventId, TRUE)
    \/ \E i \in 1..MaxPending, ok \in BOOLEAN : emailSettles(i, ok)

SpecMail == InitMail /\ [][NextMail]_vars

-----------------------------------------------------------------------------
(* The date functions on strings that are not dates                          *)

\* Cards of events whose date is no date: a string no Date constructor
\* parses, the empty string, a missing property
BadDates == {NotADate, EmptyString, Undefined}

NextBadDate ==
    \/ \E date \in BadDates : createEventCard(date)
    \/ \E frac \in 0..(TicksPerSecond - 1) : updateAllCountdowns(frac)
    \/ HoursPass

SpecBadDate == InitDate /\ [][NextBadDate]_vars

-----------------------------------------------------------------------------
(* The static server on its own: requests for every short path              *)

MaxUrlSegments == 3     \* the longest request path tried

UrlSegments == {DotDot, <<"a">>, <<"a", "b">>, <<"f">>}

Urls == UNION {[1..n -> UrlSegments] : n \in 0..MaxUrlSegments}

\* node server.js in the served directory, or node a/server.js in the one above
WorkingDirectories == {Dirname, <<<<"s">>>>}

\* A request arrives and is answered
request(url) ==
    /\ server' = [cwd |-> server.cwd] @@ requestHandler(url, server.cwd)
    /\ UNCHANGED <<events, storage, editMode, editingEventId, now, tz, pc, last,
                   view, backup, cards, timers, emailjs, pending, reminded,
                   sent, categories, categoriesStored>>

InitServer ==
    /\ events = <<>>
    /\ storage = AbsentKey
    /\ editMode = FALSE
    /\ editingEventId = Null
    /\ now = 0
    /\ tz = UTC
    /\ pc = "boot"
    /\ last = NoOutcome
    /\ view = NoView
    /\ backup = NoFile
    /\ cards = <<>>
    /\ hidden = FALSE
    /\ intervalId = Null
    /\ intervals = {}
    /\ lastCheckedDate = Null
    /\ emailjs = FALSE
    /\ pending = <<>>
    /\ server \in {[ServerIdle EXCEPT !.cwd = d] : d \in WorkingDirectories}
    /\ reminded = {}
    /\ sent = <<>>
    /\ categories = <<>>
    /\ categoriesStored = Null

NextServer == \E url \in Urls : request(url)

SpecServer == InitServer /\ [][NextServer]_vars

-----------------------------------------------------------------------------
(* The reminders: checked when the page is opened and by an hourly interval, *)
(* with the library loaded or not and a storage that takes writes or is full *)

\* What the events key holds when the page is opened
RemindStores ==
    {ArrayText(<<Stored(<<-1, 0>>, <<2026, 1, 9>>)>>),
     ArrayText(<<Stored(<<-1, 1>>, <<2026, 1, 8>>),
                 Stored(<<-1, 2>>, <<2026, 1, 9>>)>>),
     [kind |-> "text", json |-> "array",
      items |-> <<Stored(<<-1, 0>>, <<2026, 1, 9>>)>>, full |-> TRUE]}

\* The callback of the interval initApp sets after its own reminder check
hourlyReminderCheck ==
    /\ pc = "running"
    /\ LET r == checkAndSendReminders(events, now, tz, storage, reminded, sent,
                                      emailjs)
       IN  /\ Len(r.sent) <= MaxReminders
           /\ reminded' = r.reminded
           /\ sent' = r.sent
           /\ last' = Outcome("remind",
                              IF r.raised THEN "raised" ELSE "completed",
                              Undefined, NoNotification, {}, "none")
    /\ UNCHANGED <<events, storage, editMode, editingEventId, now, tz, pc, view,
                   backup, cards, timers, emailjs, pending, server, categories,
                   categoriesStored>>

InitRemind ==
    /\ events = <<>>
    /\ storage \in RemindStores
    /\ editMode = FALSE
    /\ editingEventId = Null
    /\ now = TickStart
    /\ tz \in TimeZones
    /\ pc = "boot"
    /\ last = NoOutcome
    /\ view = NoView
    /\ backup = NoFile
    /\ cards = <<>>
    /\ hidden = FALSE
    /\ intervalId = Null
    /\ intervals = {}
    /\ lastCheckedDate = Null
    /\ emailjs \in BOOLEAN
    /\ pending = <<>>
    /\ server = ServerIdle
    /\ reminded = {}
    /\ sent = <<>>
    /\ categories = <<>>
    /\ categoriesStored = Null

NextRemind ==
    \/ \E rnds \in [1..MaxStored -> RandomSuffixes] : initApp(rnds)
    \/ Reload
    \/ hourlyReminderCheck
    \/ ClockRuns

SpecRemind == InitRemind /\ [][NextRemind]_vars

-----------------------------------------------------------------------------
(* The settings page: backup files with and without events and categories,   *)
(* and Clear All Data, among the form's handlers                             *)

\* Backup files that carry categories
CategoryFiles ==
    {[json |-> "object", hasEvents |-> FALSE, categories |-> <<"travel">>],
     [json |-> "object", hasEvents |-> TRUE, events |-> <<BackupA>>,
      categories |-> <<"travel">>]}

NextImport ==
    \/ \E rnds \in [1..MaxStored -> RandomSuffixes] : initApp(rnds)
    \/ Reload
    \/ \E formData \in Forms, rnd \in RandomSuffixes : handleSubmit(formData, rnd)
    \/ \E eventId \in EventIds : handleDelete(eventId, TRUE)
    \/ \E eventId \in EventIds : handleEdit(eventId)
    \/ handleCancelEdit
    \/ \E file \in ImportFiles \cup CategoryFiles : importData(file)
    \/ \E confirmed \in BOOLEAN : clearAllData(confirmed)

SpecImport == Init /\ [][NextImport]_vars

-----------------------------------------------------------------------------
(* The form, in add mode and in edit mode, with the mail library loaded or   *)
(* not: forms that pass the validation and forms that fail it                *)

NextSubmit ==
    \/ \E rnds \in [1..MaxStored -> RandomSuffixes] : initApp(rnds)
    \/ \E formData \in Forms, rnd \in RandomSuffixes : handleSubmit(formData, rnd)
    \/ \E eventId \in EventIds : handleEdit(eventId)
    \/ handleCancelEdit
    \/ \E i \in 1..MaxPending, ok \in BOOLEAN : emailSettles(i, ok)

SpecSubmit == InitMail /\ [][NextSubmit]_vars

-----------------------------------------------------------------------------
(* Properties *)

\* the calendar day a date string names, as a day number
DayOfDateString(s) == DayNumber(s[1], s[2], s[3])

\* the status the contract gives an event `diff` calendar days after the
\* reference day
StatusOfDifference(diff) ==
    IF diff = 0 THEN "today"
    ELSE IF diff < 0 THEN "past"
    ELSE IF diff <= 7 THEN "upcoming"
    ELSE "future"

\* C1: the status on a card is 'today' iff the event's calendar date d is the
\* local calendar day r of the clock reading, 'past' iff d < r, 'upcoming'
\* iff 1 <= d - r <= 7 and 'future' iff d - r > 7.
C1_StatusByCalendarDay ==
    view # NoView =>
        view.status =
            StatusOfDifference(DayOfDateString(view.date) - LocalDay(view.at, tz))

AddMode == ~(editMode /\ Truthy(editingEventId))

TitleInBounds(t) == Len(trim(t)) >= 3 /\ Len(trim(t)) <= 100

\* C2: submitting a form with a title of 3..100 characters after trimming and
\* a parseable date, outside edit mode, appends exactly one record, and
\* getEventById of the returned id yields a record with title trim(t) and
\* date d.
C2_AddThenGetById ==
    [][\A f \in Forms, rnd \in RandomSuffixes :
          (/\ last'.op = "submit"
           /\ AddMode
           /\ TitleInBounds(f.title)
           /\ IsDateString(f.date)
           /\ handleSubmit(f, rnd))
          => /\ last'.ret = "added"
             /\ Len(events') = Len(events) + 1
             /\ SubSeq(events', 1, Len(events)) = events
             /\ Get(getEventById(events', last'.id), "title") = trim(f.title)
             /\ Get(getEventById(events', last'.id), "date") = f.date]_vars

\* C3: submitting a form whose trimmed title is shorter than 3 or longer than
\* 100 characters fails with an error on the title field, and neither the
\* events nor the stored value change.
C3_InvalidTitleRejected ==
    [][\A f \in Forms, rnd \in RandomSuffixes :
          (last'.op = "submit" /\ ~TitleInBounds(f.title) /\ handleSubmit(f, rnd))
          => /\ last'.ret = "invalid"
             /\ "title" \in last'.errors
             /\ last'.notif.type # "success"
             /\ events' = events
             /\ storage' = storage]_vars

\* C3 happens: a submit was rejected for its title while the store held a
\* record and its mirror.
C3_Witness ==
    /\ last.op = "submit"
    /\ last.ret = "invalid"
    /\ "title" \in last.errors
    /\ Len(events) > 0
    /\ storage = stringify(events)

\* C4: an update of an id present in the store replaces title, date and
\* description of one record carrying that id, at its position: the id, the
\* creation time and every other property of it stay, the number of records
\* stays, and every other record stays.
C4_UpdateInPlace ==
    [][\A f \in Forms, rnd \in RandomSuffixes :
          (/\ last'.op = "submit"
           /\ ~AddMode
           /\ TitleInBounds(f.title)
           /\ IsDateString(f.date)
           /\ \E i \in 1..Len(events) : Get(events[i], "id") = editingEventId
           /\ handleSubmit(f, rnd))
          => /\ Len(events') = Len(events)
             /\ \E i \in 1..Len(events) :
                   /\ Get(events[i], "id") = editingEventId
                   /\ \A j \in 1..Len(events) : j # i => events'[j] = events[j]
                   /\ \A key \in DOMAIN events[i] \ {"title", "date", "description"} :
                         key \in DOMAIN events'[i] /\ events'[i][key] = events[i][key]
                   /\ DOMAIN events'[i] =
                         DOMAIN events[i] \cup {"title", "date", "description"}
                   /\ events'[i].title = trim(f.title)
                   /\ events'[i].date = f.date
                   /\ events'[i].description = trim(f.description)]_vars

\* C4 happens: an update went through in a store of two records.
C4_Witness ==
    /\ last.op = "submit"
    /\ last.ret = "updated"
    /\ Len(events) = 2
    /\ Get(events[1], "id") # Get(events[2], "id")

\* C5: a submit in edit mode whose id is no longer in the store is reported
\* as a failure, never as a successful update.
C5_NotFoundIsFailure ==
    (last.op = "submit" /\ last.ret = "notfound") => last.notif.type = "error"

\* C6: deleting an id present in the store returns true and removes one
\* record; deleting the same id again returns false, so that the count went
\* down by exactly one; deleting an absent id returns false and changes
\* neither the events nor the stored value.
C6_DeleteIdempotent ==
    [][\A id \in EventIds :
          (last'.op = "delete" /\ handleDelete(id, TRUE))
          => /\ (\E i \in 1..Len(events) : Get(events[i], "id") = id)
                   => (last'.ret = "true" /\ Len(events') = Len(events) - 1)
             /\ (last.op = "delete" /\ last.ret = "true" /\ last.id = id)
                   => (last'.ret = "false" /\ Len(events') = Len(events))
             /\ (\A i \in 1..Len(events) : Get(events[i], "id") # id)
                   => (last'.ret = "false" /\ events' = events
                       /\ storage' = storage)]_vars

\* whether a record's date names a calendar day
HasDate(e) == NewDate(Get(e, "date")) # NaN

\* S holds the records of E (S[i] = E[p[i]] for a bijection p), a record dated
\* earlier before one dated later, and records of one date in their order in E
IsStableSortOf(S, E) ==
    /\ Len(S) = Len(E)
    /\ \E p \in [1..Len(E) -> 1..Len(E)] :
          /\ \A i, j \in 1..Len(E) : i # j => p[i] # p[j]
          /\ \A i \in 1..Len(E) : S[i] = E[p[i]]
          /\ \A i, j \in 1..Len(E) :
                (i < j /\ HasDate(S[i]) /\ HasDate(S[j]))
                => \/ NewDate(Get(S[i], "date")) < NewDate(Get(S[j], "date"))
                   \/ /\ NewDate(Get(S[i], "date")) = NewDate(Get(S[j], "date"))
                      /\ p[i] < p[j]

\* C7: the sorted listing of the store holds all its records by ascending
\* date, records of equal date in their order in the store.
C7_SortedAscendingStable ==
    pc = "running" => IsStableSortOf(getSortedEvents(events), events)

\* C8: no two records of the store have the same id.
C8_UniqueIds ==
    \A i, j \in 1..Len(events) :
        i # j => Get(events[i], "id") # Get(events[j], "id")

\* C9: after an add, update, delete or import whose write succeeded, the
\* stored value is the text of the events in memory, and loading it gives
\* back the events in memory.
C9_WriteThrough ==
    (/\ pc = "running"
     /\ last.op \in {"submit", "delete", "import"}
     /\ last.saved = "ok")
    => /\ storage = stringify(events)
       /\ \A rnds \in [1..MaxStored -> RandomSuffixes] :
             stringifyItems(loadFromStorage(storage, now, rnds))
                = stringifyItems(events)

\* a stored value that is the JSON text of an array of objects
IsArrayOfRecords(st) ==
    /\ st.kind = "text"
    /\ st.json = "array"
    /\ \A i \in 1..Len(st.items) : st.items[i].k = "obj"

\* C10: when the stored value is anything but the JSON text of an array of
\* records, startup completes without raising and the store is empty.
C10_FallbackToEmpty ==
    (last.op = "load" /\ ~IsArrayOfRecords(storage))
    => (last.ret = "completed" /\ events = <<>>)

\* reading any of the five fields gives the same value in both records
SameFields(a, b) ==
    \A key \in {"id", "title", "date", "description", "createdAt"} :
        Get(a, key) = Get(b, key)

SameRecords(A, B) ==
    Len(A) = Len(B) /\ \A i \in 1..Len(A) : SameFields(A[i], B[i])

TicksUntil(dateString, clock, frac) ==
    (LocalMidnight(DayOfDateString(dateString), tz) - clock) * TicksPerSecond
        - frac

\* C12: with E the local midnight of the event date and N the clock reading,
\* the countdown is past with all parts 0 when E <= N; otherwise it is not
\* past, hours < 24, minutes < 60, seconds < 60, and the parts add up to the
\* whole seconds of E - N.
C12_CountdownDecomposition ==
    view.counted =>
        LET c == view.countdown
            ticks == TicksUntil(view.date, view.countedAt[1], view.countedAt[2])
        IN  IF ticks <= 0
            THEN c = [days |-> 0, hours |-> 0, minutes |-> 0, seconds |-> 0,
                      isPast |-> TRUE]
            ELSE /\ ~c.isPast
                 /\ c.days >= 0
                 /\ c.hours \in 0..23
                 /\ c.minutes \in 0..59
                 /\ c.seconds \in 0..59
                 /\ c.days * 86400 + c.hours * 3600 + c.minutes * 60 + c.seconds
                       = ticks \div TicksPerSecond

\* C12 happens: at 2026-01-08T12:00:00 the countdown to 2026-01-10 reads
\* 1 day 12 hours 0 minutes 0 seconds.
C12_Witness ==
    /\ view.counted
    /\ view.date = <<2026, 1, 10>>
    /\ view.countedAt = <<DayNumber(2026, 1, 8) * SecondsPerDay + 12 * 3600, 0>>
    /\ tz = UTC
    /\ view.countdown = [days |-> 1, hours |-> 12, minutes |-> 0, seconds |-> 0,
                         isPast |-> FALSE]

\* C13: the text of a past countdown is "Event has passed"; otherwise it has
\* the days iff they are not 0, then the hours iff hours or days are not 0,
\* then the minutes iff minutes, hours or days are not 0, then the seconds.
C13_CountdownText ==
    (view.counted /\ view.text # CalculatingText) =>
        LET c == view.countdown
            Part(shown, n, unit) == IF shown THEN <<<<n, unit>>>> ELSE <<>>
        IN  IF c.isPast THEN view.text = <<<<0, "Event has passed">>>>
            ELSE view.text =
                    Part(c.days # 0, c.days, "d")
                    \o Part(c.hours # 0 \/ c.days # 0, c.hours, "h")
                    \o Part(c.minutes # 0 \/ c.hours # 0 \/ c.days # 0,
                            c.minutes, "m")
                    \o Part(TRUE, c.seconds, "s")

\* C13 happens: 2 days 0 hours 5 minutes 30 seconds reads "2d 0h 5m 30s".
C13_Witness ==
    /\ view.countdown = [days |-> 2, hours |-> 0, minutes |-> 5, seconds |-> 30,
                         isPast |-> FALSE]
    /\ view.text = <<<<2, "d">>, <<0, "h">>, <<5, "m">>, <<30, "s">>>>

\* the label of an event `diff` calendar days after today
RelativeLabel(diff) ==
    IF diff = 0 THEN <<"Today">>
    ELSE IF diff = 1 THEN <<"Tomorrow">>
    ELSE IF diff = 0 - 1 THEN <<"Yesterday">>
    ELSE IF diff < 0 - 1 THEN <<0 - diff, "days ago">>
    ELSE <<"In", diff, "days">>

\* C14: the relative label on a card of a parseable date is the one of the
\* number of calendar days from the local day the card was drawn on to the
\* event's date: Today for 0, Tomorrow for 1, Yesterday for -1, "N days ago"
\* below -1 and "In N days" above 1.
C14_LabelByCalendarDays ==
    (view # NoView /\ IsDateString(view.date)) =>
        view.label = RelativeLabel(DayOfDateString(view.date) - LocalDay(view.at, tz))

\* the status of a card is the one computed at local midnight of the day it
\* was drawn on
SameStatusAllDay ==
    view # NoView =>
        view.status =
            getEventStatus(view.date, LocalMidnight(LocalDay(view.at, tz), tz), tz)

\* C15: the status computed at any time of a reference day is the status
\* computed at midnight of that day, and so an event dated on the reference
\* day is 'today' at every time of that day.
C15_DateOnlyClassification ==
    /\ SameStatusAllDay
    /\ (view # NoView /\ IsDateString(view.date)
            /\ DayOfDateString(view.date) = LocalDay(view.at, tz)) =>
           view.status = "today"

\* C16: in every state in which the page is hidden, a page opened while
\* hidden included, no countdown interval is running.
C16_NoIntervalWhileHidden == hidden => intervals = {}

\* C17: a tick on which the cached date is not the current local date draws
\* the list anew, a card for every stored event with the status the classifier
\* gives it now, changes neither the events nor the storage, and leaves the
\* current date in the cache.
C17_DayRollover ==
    [][\A id \in intervals :
          (/\ last'.op = "tick"
           /\ lastCheckedDate # Null
           /\ lastCheckedDate # DateOfDayNumber(LocalDay(now, tz))
           /\ countdownTick(id)) =>
              /\ events' = events
              /\ storage' = storage
              /\ lastCheckedDate' = DateOfDayNumber(LocalDay(now, tz))
              /\ Len(cards') = Len(events)
              /\ \A i \in 1..Len(events) :
                     \E j \in 1..Len(cards') :
                        /\ cards'[j].id = Get(events[i], "id")
                        /\ cards'[j].status =
                               getEventStatus(Get(events[i], "date"), now, tz)]_vars

\* a tick after midnight has turned the card of the event of January 9 from
\* 'upcoming' to 'today'
C17_Witness ==
    /\ last.op = "tick"
    /\ last.ret = "rendered"
    /\ tz = India
    /\ lastCheckedDate = <<2026, 1, 9>>
    /\ Len(events) = 3
    /\ \E j \in 1..Len(cards) :
           cards[j].date = <<2026, 1, 9>> /\ cards[j].status = "today"

HasId(E, id) == \E i \in 1..Len(E) : Get(E[i], "id") = id

\* C18: an add puts the record in the store and makes exactly one send (none
\* without the library), which is still in flight when the handler is done;
\* when a send settles, well or badly, the events and the storage stay as they
\* are and no other send is made; no other step makes a send.
C18_FireAndForget ==
    [][/\ \A f \in ValidForms, rnd \in RandomSuffixes :
             (last'.op = "submit" /\ last'.ret = "added" /\ handleSubmit(f, rnd)) =>
                /\ HasId(events', last'.id)
                /\ pending' = IF emailjs THEN Append(pending, last'.id) ELSE pending
       /\ \A i \in 1..Len(pending), ok \in BOOLEAN :
             (last'.op = "mail" /\ emailSettles(i, ok)) =>
                /\ events' = events
                /\ storage' = storage
                /\ Len(pending') = Len(pending) - 1
       /\ Len(pending') > Len(pending) =>
             \E f \in ValidForms, rnd \in RandomSuffixes :
                last'.op = "submit" /\ last'.ret = "added" /\ handleSubmit(f, rnd)]_vars

\* a send has failed, another one is still in flight, and the records of both
\* are in the store and in the storage
C18_Witness ==
    /\ last.op = "mail"
    /\ last.ret = "failed"
    /\ Len(pending) = 1
    /\ pending[1] # last.id
    /\ HasId(events, last.id)
    /\ HasId(events, pending[1])
    /\ storage = stringify(events)

\* C19: when the write of an add, an update or a delete fails, the handler
\* ends as it does after a write that went through, saveToStorage has returned
\* false, the storage is left as it was (no second write), and the events in
\* memory carry the change: one record more, the record rewritten, or one
\* record less.
C19_FailedWriteKeepsMemory ==
    [][/\ \A f \in ValidForms, rnd \in RandomSuffixes :
             (last'.op = "submit" /\ last'.saved = "failed" /\ handleSubmit(f, rnd)) =>
                /\ ~saveToStorage(events', storage).saved
                /\ storage' = storage
                /\ last'.ret \in {"added", "updated"}
                /\ last'.notif.type = "success"
                /\ last'.ret = "added" =>
                      /\ Len(events') = Len(events) + 1
                      /\ SubSeq(events', 1, Len(events)) = events
                      /\ events'[Len(events')].id = last'.id
                      /\ events'[Len(events')].title = trim(f.title)
                /\ last'.ret = "updated" =>
                      /\ Len(events') = Len(events)
                      /\ \E i \in 1..Len(events) :
                            /\ Get(events[i], "id") = editingEventId
                            /\ events'[i].title = trim(f.title)
                            /\ events'[i].date = f.date
                            /\ \A j \in 1..Len(events) : j # i => events'[j] = events[j]
       /\ \A eventId \in EventIds :
             (last'.op = "delete" /\ last'.saved = "failed"
                 /\ handleDelete(eventId, TRUE)) =>
                /\ ~saveToStorage(events', storage).saved
                /\ storage' = storage
                /\ last'.ret = "true"
                /\ Len(events') = Len(events) - 1
                /\ \E i \in 1..Len(events) :
                      Get(events[i], "id") = eventId /\ events' = splice(events, i)]_vars

\* after an add whose write failed: two records in memory, one in the storage
C19_Witness ==
    /\ last.op = "submit"
    /\ last.ret = "added"
    /\ last.saved = "failed"
    /\ Len(events) = 2
    /\ events[2].id = last.id
    /\ Len(storage.items) = 1

\* C20: in every state reached by loading, adding, updating, deleting and
\* importing, the title of every record of the store has 3 to 100 characters
\* after trimming.
C20_StoredTitlesInBounds ==
    \A i \in 1..Len(events) :
        /\ Get(events[i], "title") # Undefined
        /\ TitleInBounds(Get(events[i], "title"))

\* C21: loading the persisted data a second time, at any clock reading and
\* with any random numbers, gives the records the first load gave, ids and
\* creation times included; and repairing the loaded records changes none.
C21_RepairDeterministic ==
    (pc = "running" /\ last.op = "load") =>
        \A clock \in Clocks, rnds \in [1..MaxStored -> RandomSuffixes] :
            /\ loadFromStorage(storage, clock, rnds) = events
            /\ repairFrom(events, clock, rnds, 1) = events

\* what a function that raised InvalidDateError would leave on the card
InvalidDateError == <<"InvalidDateError">>

\* C22: for a date string that does not parse, getEventStatus,
\* formatDateRelative and getCountdown end with InvalidDateError: the card
\* gets no status, no label and no countdown.
C22_InvalidDateRejected ==
    (view # NoView /\ ~IsDateString(view.date)) =>
        /\ view.status \notin {"today", "past", "upcoming", "future"}
        /\ view.label = InvalidDateError
        /\ ~view.counted

\* C23: a request whose path resolves, from the served directory, to a place
\* outside it is answered with 403, and the file of a 200 lies in the served
\* directory.
C23_TraversalRejected ==
    server.status # 0 =>
        /\ ~within(resolve(Dirname, server.url), Dirname) => server.status = 403
        /\ server.status = 200 => within(server.body, Dirname)

\* C24: after every tick of a visible page the cards carry the status of
\* their dates on the current local day: a day change since the cards were
\* drawn has been caught by a full redraw, also when it fell before the first
\* tick after startup or while the page was hidden.
C24_NoStaleStatusAfterTick ==
    [][\A id \in intervals :
          (last'.op = "tick" /\ ~hidden /\ countdownTick(id)) =>
              \A j \in 1..Len(cards') :
                  cards'[j].status = getEventStatus(cards'[j].date, now, tz)]_vars


\* C25: across reminder checks (at load and hourly) and page reloads, a
\* reminder is handed to the mail service at most once for an event id and a
\* calendar day, whether or not the send succeeds
C25_OncePerEventAndDay ==
    \A i, j \in 1..Len(sent) : sent[i] = sent[j] => i = j


\* C26: after any startup, hiding and showing of the page at most one countdown
\* interval is running, and every interval that is running is the one recorded
\* in intervalId, so that stop() can clear it
C26_OneIntervalNoLeak ==
    /\ Cardinality(intervals) <= 1
    /\ intervals \subseteq {intervalId}


\* C27: in every state reached by edit, cancel, submit, delete, import and
\* clear-all, editMode holds exactly when editingEventId is not null, and an
\* editingEventId that is not null is the id of a record in the store
C27_EditModeConsistent ==
    /\ editMode <=> editingEventId # Null
    /\ editingEventId # Null =>
           \E i \in 1..Len(events) : Get(events[i], "id") = editingEventId


\* the label says Yesterday or counts days ago
LabelInPast(label) ==
    \/ label = <<"Yesterday">>
    \/ Len(label) = 2 /\ label[2] = "days ago"

\* C28: for every event date, time of day and UTC offset, the card's status is
\* 'today' exactly when its relative label is Today, and 'past' exactly when
\* the label is Yesterday or a number of days ago
C28_StatusAgreesWithLabel ==
    (view # NoView /\ IsDateString(view.date)) =>
        /\ view.status = "today" <=> view.label = <<"Today">>
        /\ view.status = "past" <=> LabelInPast(view.label)


\* C29: when importData ends by reporting "Import Failed", the events and the
\* categories in memory and their stored copies are as they were before it
C29_FailedImportChangesNothing ==
    [][\A file \in ImportFiles \cup CategoryFiles :
          (last'.op = "import" /\ last'.ret = "failed" /\ importData(file)) =>
              /\ events' = events
              /\ storage' = storage
              /\ categories' = categories
              /\ categoriesStored' = categoriesStored]_vars


\* C30: a submit that fails validation changes nothing: the events, the stored
\* value, editMode and editingEventId stay as they are and no e-mail is sent
\* (no send is started, no reminder is dispatched); when both the title and
\* the date are invalid, both fields get their error in the same submit.
C30_InvalidSubmitIsNoOp ==
    [][\A f \in Forms, rnd \in RandomSuffixes :
          (/\ last'.op = "submit"
           /\ ~(TitleInBounds(f.title) /\ IsDateString(f.date))
           /\ handleSubmit(f, rnd))
          => /\ last'.ret = "invalid"
             /\ events' = events
             /\ storage' = storage
             /\ editMode' = editMode
             /\ editingEventId' = editingEventId
             /\ pending' = pending
             /\ sent' = sent
             /\ (~TitleInBounds(f.title) /\ ~IsDateString(f.date))
                    => last'.errors = {"title", "date"}]_vars

\* C30 happens: with the library loaded and the form in edit mode on a record
\* of the store, a submit was rejected for its title and its date at once.
C30_Witness ==
    /\ last.op = "submit"
    /\ last.ret = "invalid"
    /\ last.errors = {"title", "date"}
    /\ emailjs
    /\ editMode
    /\ HasId(events, editingEventId)

====
